---- MODULE Spec2Model ----
(***************************************************************************)
(* Model of the ctx crate: a tree of contexts (background, with_cancel,    *)
(* with_timeout, with_value), polled by tasks running on threads, with     *)
(* cancel functions called from other threads and timers that fire.        *)
(*                                                                         *)
(* A WithDeadline context owns a private WithCancel context as its parent  *)
(* field (with_deadline.rs:77-82).  Nobody else holds a handle to that     *)
(* inner context, so the pair is kept as one node here: a node of kind     *)
(* "WithDeadline" carries the timer and the inner context's flag and       *)
(* waiter slot, and "parent" is the inner context's parent.                *)
(***************************************************************************)
EXTENDS Integers, Sequences, FiniteSets, TLC

\* Bounds of the model.
MaxNodes == 2       \* contexts derived from the background
MaxTime == 1        \* last instant of the clock
MaxTimeout == 1     \* longest timeout passed to with_timeout
MaxClones == 1      \* clones made of the handles

Tasks == {1, 2}     \* tasks, each on a thread of its own
Solo == {1}         \* the tasks that call in Spec; cancel functions run on further threads
Timeouts == 0..MaxTimeout
Types == {"i32", "f64"}
Vals == {[type |-> "i32", v |-> 1], [type |-> "i32", v |-> 2], [type |-> "f64", v |-> 1]}
NoVal == [type |-> "none", v |-> 0]

None == <<>>
Some(x) == <<x>>

VARIABLES
    nodes,      \* the contexts: [kind, parent, when, sleep, val]; nodes[1] is the background
    canceled,   \* canceled[n]: the flag behind WithCancel.canceled
    handle,     \* handle[n]: the waiter slot behind WithCancel.handle (0: None, t: Some(task t))
    sleepTask,  \* sleepTask[n]: the task the Sleep of n notifies when it expires (0: none)
    mutex,      \* mutex[n]: the task holding the Context's mutex of n (0: free)
    flagLock,   \* flagLock[n]: a cancel call holds the mutex of canceled[n]
    now,        \* the clock
    pc,         \* pc[t]: "idle", "polling", "parked", "looking", "panicked"
    call,       \* call[t]: the task's last call, [op, node, res, val]
    stack,      \* stack[t]: the frames of the poll in progress, [node, pc]
    ret,        \* ret[t]: the value the callee's poll returned to the frame above
    notified,   \* notified[t]: a notification of task t is pending
    pre,        \* pre[t]: what was known of the target's chain when the poll started
    clones,     \* the handles made by clone: [of, node], the node cloned and the node referred to
    via         \* via[t]: the clone the task's last call went through (0: the first handle)

vars == <<nodes, canceled, handle, sleepTask, mutex, flagLock, now,
          pc, call, stack, ret, notified, pre, clones, via>>

nodeVars == <<nodes, canceled, handle, sleepTask, mutex, flagLock>>
taskVars == <<pc, call, stack, ret, notified, pre>>
handleVars == <<clones, via>>

Ids == 1..Len(nodes)
Kind(n) == nodes[n].kind
Parent(n) == nodes[n].parent
HasCancel(n) == Kind(n) \in {"WithCancel", "WithDeadline"}

\* The nodes from n up to the background, n first.
RECURSIVE Path(_)
Path(n) == IF n = 0 THEN <<>> ELSE <<n>> \o Path(nodes[n].parent)

PathSet(n) == {Path(n)[i] : i \in 1..Len(Path(n))}

Background == [kind |-> "Background", parent |-> 0, when |-> 0, sleep |-> "None", val |-> NoVal]

NoCall == [op |-> "none", node |-> 0, res |-> "none", val |-> None]
NoPre == [trig |-> {}, fired |-> {}, seen |-> {}]
NoVia == [clone |-> 0, trig |-> {}]

Init ==
    /\ nodes = <<Background>>
    /\ canceled = <<FALSE>>
    /\ handle = <<0>>
    /\ sleepTask = <<0>>
    /\ mutex = <<0>>
    /\ flagLock = <<FALSE>>
    /\ now = 0
    /\ pc = [t \in Tasks |-> "idle"]
    /\ call = [t \in Tasks |-> NoCall]
    /\ stack = [t \in Tasks |-> <<>>]
    /\ ret = [t \in Tasks |-> "none"]
    /\ notified = [t \in Tasks |-> FALSE]
    /\ pre = [t \in Tasks |-> NoPre]
    /\ clones = <<>>
    /\ via = [t \in Tasks |-> NoVia]

----
\* Derivations.

\* No time has passed, no task has called anything and no cancel function was
\* called.  A derivation reads its parent handle and the clock and writes only
\* the node it creates, so it commutes with every step the tasks and the cancel
\* functions take on the nodes that exist: the model takes the derivations
\* first, at instant 0.
Fresh ==
    /\ now = 0
    /\ \A t \in Tasks : call[t].op = "none"
    /\ \A n \in 1..Len(nodes) : ~canceled[n]

\* Context::new around a fresh inner context.
NewNode(node) ==
    /\ Len(nodes) < MaxNodes + 1
    /\ Fresh
    /\ nodes' = Append(nodes, node)
    /\ canceled' = Append(canceled, FALSE)
    /\ handle' = Append(handle, 0)
    /\ sleepTask' = Append(sleepTask, 0)
    /\ mutex' = Append(mutex, 0)
    /\ flagLock' = Append(flagLock, FALSE)
    /\ UNCHANGED <<now, taskVars>>

WithCancel(parent) ==
    NewNode([kind |-> "WithCancel", parent |-> parent, when |-> 0, sleep |-> "None",
             val |-> NoVal])

\* tooLong: the timer does not take the timeout, and its Sleep polls to an error.
WithTimeout(parent, timeout, tooLong) ==
    NewNode([kind |-> "WithDeadline", parent |-> parent, when |-> now + timeout,
             sleep |-> IF tooLong THEN "Err" ELSE "Sleep", val |-> NoVal])

WithValue(parent, val) ==
    NewNode([kind |-> "WithValue", parent |-> parent, when |-> 0, sleep |-> "None",
             val |-> val])

\* deadline - Instant::now(), the Duration from one instant back to another.  When
\* the deadline lies before now, the subtraction panics (None) in the toolchains
\* before Rust 1.60 and gives a Duration of zero in the later ones.
InstantSub(a, b) == IF a >= b THEN {Some(a - b)} ELSE {None, Some(0)}

\* with_deadline called by task t; a panic ends the thread of the task.
WithDeadline(t, parent, deadline, tooLong) ==
    /\ pc[t] = "idle"
    /\ deadline < now => ~tooLong
    /\ \E d \in InstantSub(deadline, now) :
          IF d = None
          THEN /\ Fresh
               /\ pc' = [pc EXCEPT ![t] = "panicked"]
               /\ call' = [call EXCEPT ![t] = [op |-> "with_deadline", node |-> parent,
                                               res |-> "panic", val |-> None]]
               /\ UNCHANGED <<nodeVars, now, stack, ret, notified, pre>>
          ELSE WithTimeout(parent, d[1], tooLong)

----
\* Handles.  A derivation returns the first handle of its node, named by the number
\* n of the node; the clone c is named -c.

Handles == Ids \cup {-c : c \in 1..Len(clones)}
NodeOf(h) == IF h > 0 THEN h ELSE clones[-h].node

\* A clone that wraps a copy of the node in a mutex of its own.
CloneCopy(h) ==
    /\ Len(clones) < MaxClones
    /\ Fresh
    /\ clones' = Append(clones, [of |-> h, node |-> Len(nodes) + 1])
    /\ nodes' = Append(nodes, nodes[NodeOf(h)])
    /\ canceled' = Append(canceled, FALSE)
    /\ handle' = Append(handle, 0)
    /\ sleepTask' = Append(sleepTask, 0)
    /\ mutex' = Append(mutex, 0)
    /\ flagLock' = Append(flagLock, FALSE)
    /\ UNCHANGED <<now, taskVars, via>>

\* Context::clone: Context(self.0.clone()), a second reference to the same mutex.
Clone(h) ==
    /\ Len(clones) < MaxClones
    /\ Fresh
    /\ clones' = Append(clones, [of |-> h, node |-> NodeOf(h)])
    /\ UNCHANGED <<nodeVars, now, taskVars, via>>

\* Task t makes its call through handle h; for a clone, what was known of the
\* cancel functions of the chain of the node cloned when the call started.
Through(t, h) ==
    via' = [via EXCEPT ![t] =
               IF h > 0 THEN NoVia
               ELSE [clone |-> -h,
                     trig |-> {m \in PathSet(NodeOf(clones[-h].of)) :
                                  canceled[m] /\ ~flagLock[m]}]]

----
\* The clock and the timers.

\* self.deadline.poll(): the Sleep of n is ready from its instant on.
SleepPoll(n) ==
    IF nodes[n].sleep = "Err" THEN "Err"
    ELSE IF now >= nodes[n].when THEN "Ready" ELSE "NotReady"

\* The timer of n has fired.
Fired(n) == Kind(n) = "WithDeadline" /\ SleepPoll(n) = "Ready"

\* Time passes; a Sleep that expires notifies the task that polled it.
Tick ==
    /\ now < MaxTime
    /\ now' = now + 1
    /\ notified' = [t \in Tasks |-> notified[t] \/
                       \E n \in Ids : /\ sleepTask[n] = t
                                      /\ nodes[n].sleep = "Sleep"
                                      /\ nodes[n].when = now + 1]
    /\ UNCHANGED <<nodeVars, pc, call, stack, ret, pre>>

----
\* The cancel function with_cancel returns, called on a thread of its own.

\* CancelLock that flips the flag instead of setting it.
CancelLockFlip(n) ==
    /\ HasCancel(n)
    /\ ~flagLock[n]
    /\ flagLock' = [flagLock EXCEPT ![n] = TRUE]
    /\ canceled' = [canceled EXCEPT ![n] = ~@]
    /\ UNCHANGED <<nodes, handle, sleepTask, mutex, now, taskVars>>

\* canceled_clone.lock(); *canceled = true
CancelLock(n) ==
    /\ HasCancel(n)
    /\ ~flagLock[n]
    /\ flagLock' = [flagLock EXCEPT ![n] = TRUE]
    /\ canceled' = [canceled EXCEPT ![n] = TRUE]
    /\ UNCHANGED <<nodes, handle, sleepTask, mutex, now, taskVars>>

\* if let Some(task) = *handle_clone.lock() { task.notify() }; both guards dropped
CancelNotify(n) ==
    /\ flagLock[n]
    /\ notified' = [t \in Tasks |-> notified[t] \/ handle[n] = t]
    /\ flagLock' = [flagLock EXCEPT ![n] = FALSE]
    /\ UNCHANGED <<nodes, canceled, handle, sleepTask, mutex, now,
                   pc, call, stack, ret, pre>>

----
\* Polling.

Top(t) == stack[t][Len(stack[t])]
At(t, p) == pc[t] = "polling" /\ Top(t).pc = p
Goto(t, p) == [stack EXCEPT ![t][Len(stack[t])].pc = p]

\* What a task can know of the chain of n when it starts a poll of n: the nodes
\* whose cancel function has returned, the nodes whose timer has fired, and the
\* errors that polls of n have returned to the tasks.
Snapshot(n) ==
    [trig |-> {m \in PathSet(n) : canceled[m] /\ ~flagLock[m]},
     fired |-> {m \in PathSet(n) : Fired(m)},
     seen |-> {call[u].res : u \in {v \in Tasks : /\ pc[v] = "idle"
                                                   /\ call[v].op = "poll"
                                                   /\ call[v].node = n}} \ {"NotReady"}]

\* A task calls poll on a handle of n.  The tasks are interchangeable: they are
\* numbered in the order of their first calls.
StartPoll(t, n) ==
    /\ pc[t] = "idle"
    /\ \A u \in Tasks : u < t => call[u].op # "none"
    /\ pc' = [pc EXCEPT ![t] = "polling"]
    /\ call' = [call EXCEPT ![t] = [op |-> "poll", node |-> n, res |-> "none", val |-> None]]
    /\ stack' = [stack EXCEPT ![t] = <<[node |-> n, pc |-> "lock"]>>]
    /\ pre' = [pre EXCEPT ![t] = Snapshot(n)]
    /\ UNCHANGED <<nodeVars, now, ret, notified>>

\* The poll of the top frame returns r: the guard of Context::poll is dropped, and
\* the result goes to the frame above or, from the outermost frame, to the caller.
Return(t, r) ==
    LET n == Top(t).node IN
    /\ mutex' = [mutex EXCEPT ![n] = 0]
    /\ IF Len(stack[t]) = 1
       THEN /\ pc' = [pc EXCEPT ![t] = "idle"]
            /\ call' = [call EXCEPT ![t].res = r]
            /\ stack' = [stack EXCEPT ![t] = <<>>]
            /\ ret' = [ret EXCEPT ![t] = "none"]
       ELSE /\ stack' = [stack EXCEPT ![t] = SubSeq(@, 1, Len(@) - 1)]
            /\ ret' = [ret EXCEPT ![t] = r]
            /\ UNCHANGED <<pc, call>>

\* Context::poll: self.lock().unwrap() succeeds on a frame that has not entered yet.
Lock(t) ==
    /\ At(t, "lock")
    /\ mutex[Top(t).node] = 0

\* PollLeaf that completes.
PollLeafReady(t) ==
    /\ Lock(t)
    /\ Kind(Top(t).node) \in {"Background", "WithValue"}
    /\ Return(t, "Ready")
    /\ UNCHANGED <<nodes, canceled, handle, sleepTask, flagLock, now, notified, pre>>

\* Context::poll on a Background or a WithValue: the inner poll is NotReady.
PollLeaf(t) ==
    /\ Lock(t)
    /\ Kind(Top(t).node) \in {"Background", "WithValue"}
    /\ Return(t, "NotReady")
    /\ UNCHANGED <<nodes, canceled, handle, sleepTask, flagLock, now, notified, pre>>

\* Context::poll on a WithCancel: the guard is taken and WithCancel::poll entered.
PollCancel(t) ==
    /\ Lock(t)
    /\ Kind(Top(t).node) = "WithCancel"
    /\ mutex' = [mutex EXCEPT ![Top(t).node] = t]
    /\ stack' = Goto(t, "flag")
    /\ UNCHANGED <<nodes, canceled, handle, sleepTask, flagLock, now,
                   pc, call, ret, notified, pre>>

\* PollDeadline with the arms of the two errors swapped.
PollDeadlineSwapped(t) ==
    LET n == Top(t).node IN
    /\ Lock(t)
    /\ Kind(n) = "WithDeadline"
    /\ CASE SleepPoll(n) = "Ready" ->
              /\ Return(t, "DeadlineTooLong")
              /\ UNCHANGED sleepTask
         [] SleepPoll(n) = "Err" ->
              /\ Return(t, "DeadlineExceeded")
              /\ UNCHANGED sleepTask
         [] OTHER ->
              /\ mutex' = [mutex EXCEPT ![n] = t]
              /\ sleepTask' = [sleepTask EXCEPT ![n] = t]
              /\ stack' = Goto(t, "flag")
              /\ UNCHANGED <<pc, call, ret>>
    /\ UNCHANGED <<nodes, canceled, handle, flagLock, now, notified, pre>>

\* PollDeadline that asks the flag of the inner WithCancel before the timer.
PollDeadlineFlagFirst(t) ==
    LET n == Top(t).node IN
    /\ Lock(t)
    /\ Kind(n) = "WithDeadline"
    /\ CASE canceled[n] /\ ~flagLock[n] ->
              /\ Return(t, "Canceled")
              /\ UNCHANGED sleepTask
         [] SleepPoll(n) = "Ready" /\ ~(canceled[n] /\ ~flagLock[n]) ->
              /\ Return(t, "DeadlineExceeded")
              /\ UNCHANGED sleepTask
         [] SleepPoll(n) = "Err" /\ ~(canceled[n] /\ ~flagLock[n]) ->
              /\ Return(t, "DeadlineTooLong")
              /\ UNCHANGED sleepTask
         [] OTHER ->
              /\ mutex' = [mutex EXCEPT ![n] = t]
              /\ sleepTask' = [sleepTask EXCEPT ![n] = t]
              /\ stack' = Goto(t, "flag")
              /\ UNCHANGED <<pc, call, ret>>
    /\ UNCHANGED <<nodes, canceled, handle, flagLock, now, notified, pre>>

\* Context::poll on a WithDeadline, and WithDeadline::poll: match self.deadline.poll().
\* A Sleep that is not ready keeps the polling task to notify it when it fires.
PollDeadline(t) ==
    LET n == Top(t).node IN
    /\ Lock(t)
    /\ Kind(n) = "WithDeadline"
    /\ CASE SleepPoll(n) = "Ready" ->
              /\ Return(t, "DeadlineExceeded")
              /\ UNCHANGED sleepTask
         [] SleepPoll(n) = "Err" ->
              /\ Return(t, "DeadlineTooLong")
              /\ UNCHANGED sleepTask
         [] OTHER ->
              /\ mutex' = [mutex EXCEPT ![n] = t]
              /\ sleepTask' = [sleepTask EXCEPT ![n] = t]
              /\ stack' = Goto(t, "flag")
              /\ UNCHANGED <<pc, call, ret>>
    /\ UNCHANGED <<nodes, canceled, handle, flagLock, now, notified, pre>>

\* PollFlag with the check of the flag left out: the poll always goes to the parent.
PollFlagUnchecked(t) ==
    LET n == Top(t).node IN
    /\ At(t, "flag")
    /\ ~flagLock[n]
    /\ stack' = [stack EXCEPT ![t] =
                    Append(Goto(t, "map")[t], [node |-> Parent(n), pc |-> "lock"])]
    /\ UNCHANGED <<mutex, pc, call, ret>>
    /\ UNCHANGED <<nodes, canceled, handle, sleepTask, flagLock, now, notified, pre>>

\* PollFlag that reads the flag only when no timer above the node has answered.
PollFlagParentFirst(t) ==
    LET n == Top(t).node IN
    /\ At(t, "flag")
    /\ ~flagLock[n]
    /\ IF canceled[n] /\ \A m \in PathSet(Parent(n)) : SleepPoll(m) = "NotReady" \/ Kind(m) # "WithDeadline"
       THEN Return(t, "Canceled")
       ELSE /\ stack' = [stack EXCEPT ![t] =
                            Append(Goto(t, "map")[t], [node |-> Parent(n), pc |-> "lock"])]
            /\ UNCHANGED <<mutex, pc, call, ret>>
    /\ UNCHANGED <<nodes, canceled, handle, sleepTask, flagLock, now, notified, pre>>

\* WithCancel::poll: if *self.canceled.lock().unwrap() { Err(Canceled) } else { self.parent.poll() ...
PollFlag(t) ==
    LET n == Top(t).node IN
    /\ At(t, "flag")
    /\ ~flagLock[n]
    /\ IF canceled[n]
       THEN Return(t, "Canceled")
       ELSE /\ stack' = [stack EXCEPT ![t] =
                            Append(Goto(t, "map")[t], [node |-> Parent(n), pc |-> "lock"])]
            /\ UNCHANGED <<mutex, pc, call, ret>>
    /\ UNCHANGED <<nodes, canceled, handle, sleepTask, flagLock, now, notified, pre>>

\* The waiter slot after the closure of map has run for task t.
Register(slot, t) == IF slot = t THEN slot ELSE t

\* PollMap that swallows the parent's error and stays pending.
PollMapPending(t) ==
    LET n == Top(t).node IN
    /\ At(t, "map")
    /\ handle' = [handle EXCEPT ![n] = Register(@, t)]
    /\ Return(t, "NotReady")
    /\ UNCHANGED <<nodes, canceled, sleepTask, flagLock, now, notified, pre>>

\* PollMap that reports any error of the parent as its own cancelation.
PollMapCanceled(t) ==
    LET n == Top(t).node IN
    /\ At(t, "map")
    /\ handle' = [handle EXCEPT ![n] = IF ret[t] = "NotReady" THEN Register(@, t) ELSE @]
    /\ Return(t, IF ret[t] = "NotReady" THEN "NotReady" ELSE "Canceled")
    /\ UNCHANGED <<nodes, canceled, sleepTask, flagLock, now, notified, pre>>

\* ... .map(|r| { if r == NotReady { register the current task }; r })
PollMap(t) ==
    LET n == Top(t).node IN
    /\ At(t, "map")
    /\ handle' = [handle EXCEPT ![n] = IF ret[t] = "NotReady" THEN Register(@, t) ELSE @]
    /\ Return(t, ret[t])
    /\ UNCHANGED <<nodes, canceled, sleepTask, flagLock, now, notified, pre>>

\* wait(): the poll returned NotReady, the thread parks until its task is notified.
Park(t) ==
    /\ pc[t] = "idle"
    /\ call[t].op = "poll"
    /\ call[t].res = "NotReady"
    /\ pc' = [pc EXCEPT ![t] = "parked"]
    /\ UNCHANGED <<nodeVars, now, call, stack, ret, notified, pre>>

\* wait(): the notification ends the park and the task polls again.
Unpark(t) ==
    /\ pc[t] = "parked"
    /\ notified[t]
    /\ notified' = [notified EXCEPT ![t] = FALSE]
    /\ pc' = [pc EXCEPT ![t] = "polling"]
    /\ call' = [call EXCEPT ![t].res = "none"]
    /\ stack' = [stack EXCEPT ![t] = <<[node |-> call[t].node, pc |-> "lock"]>>]
    /\ pre' = [pre EXCEPT ![t] = Snapshot(call[t].node)]
    /\ UNCHANGED <<nodeVars, now, ret>>

----
\* Lookups.

\* InnerContext::deadline of the node, one implementation per kind.
Deadline(n) == IF Kind(n) = "WithDeadline" THEN Some(nodes[n].when) ELSE None

\* Context::deadline: self.lock().unwrap().deadline()
CallDeadline(t, n) ==
    /\ pc[t] = "idle"
    /\ \A u \in Tasks : u < t => call[u].op # "none"
    /\ mutex[n] = 0
    /\ call' = [call EXCEPT ![t] = [op |-> "deadline", node |-> n, res |-> "none",
                                    val |-> Deadline(n)]]
    /\ pre' = [pre EXCEPT ![t] = NoPre]
    /\ UNCHANGED <<nodeVars, now, pc, stack, ret, notified>>

\* InnerContext::value of the node, one implementation per kind: the value a
\* WithValue stores, as &Any.
OwnValue(n) == IF Kind(n) = "WithValue" THEN Some(nodes[n].val) ELSE None

Looking(t, p) == pc[t] = "looking" /\ Top(t).pc = p

\* A frame above the top one is entered while the top one keeps its guard.
Enter(t, p, frame) ==
    /\ mutex' = [mutex EXCEPT ![Top(t).node] = t]
    /\ stack' = [stack EXCEPT ![t] = Append(Goto(t, p)[t], frame)]
    /\ UNCHANGED <<pc, call, ret>>

\* The top frame of a lookup returns r: its guard is dropped, and r goes to the
\* frame above or, from the outermost frame, to the caller.
Yield(t, r) ==
    LET n == Top(t).node IN
    /\ mutex' = [mutex EXCEPT ![n] = 0]
    /\ IF Len(stack[t]) = 1
       THEN /\ pc' = [pc EXCEPT ![t] = "idle"]
            /\ call' = [call EXCEPT ![t].val = r]
            /\ stack' = [stack EXCEPT ![t] = <<>>]
            /\ ret' = [ret EXCEPT ![t] = "none"]
       ELSE /\ stack' = [stack EXCEPT ![t] = SubSeq(@, 1, Len(@) - 1)]
            /\ ret' = [ret EXCEPT ![t] = r]
            /\ UNCHANGED <<pc, call>>

\* A task calls value::<T>() on a handle of n.
StartValue(t, n, T) ==
    /\ pc[t] = "idle"
    /\ \A u \in Tasks : u < t => call[u].op # "none"
    /\ pc' = [pc EXCEPT ![t] = "looking"]
    /\ call' = [call EXCEPT ![t] = [op |-> "value", node |-> n, res |-> "none",
                                    val |-> None, type |-> T]]
    /\ stack' = [stack EXCEPT ![t] = <<[node |-> n, pc |-> "value"]>>]
    /\ pre' = [pre EXCEPT ![t] = NoPre]
    /\ UNCHANGED <<nodeVars, now, ret, notified>>

\* Context::value: let ctx = self.lock().unwrap(); the value of the node itself,
\* downcast to T, or else ctx.parent().and_then(|parent| parent.value()).
\* The parent of a WithValue is its parent field.  A WithCancel answers parent()
\* with self.parent.0.parent(), and a WithDeadline answers value() with the value()
\* of the WithCancel it owns: both ask the parent field for its parent.
Value(t) ==
    LET n == Top(t).node
        own == OwnValue(n)
    IN
    /\ Looking(t, "value")
    /\ mutex[n] = 0
    /\ IF own # None /\ own[1].type = call[t].type
       THEN Yield(t, Some(own[1].v))
       ELSE CASE Kind(n) = "Background" -> Yield(t, None)
              [] Kind(n) = "WithValue" ->
                   Enter(t, "return", [node |-> Parent(n), pc |-> "value"])
              [] OTHER ->
                   Enter(t, "or_else", [node |-> Parent(n), pc |-> "parent"])
    /\ UNCHANGED <<nodes, canceled, handle, sleepTask, flagLock, now, notified, pre>>

\* ParentOf where a WithCancel asks its own Context, not its parent's, for the parent.
ParentOfSelf(t) ==
    LET n == Top(t).node IN
    /\ Looking(t, "parent")
    /\ mutex[n] = 0
    /\ CASE Kind(n) = "WithValue" -> Yield(t, Some(Parent(n)))
         [] Kind(n) = "WithCancel" ->
              Enter(t, "return", [node |-> n, pc |-> "parent"])
         [] OTHER -> Yield(t, None)
    /\ UNCHANGED <<nodes, canceled, handle, sleepTask, flagLock, now, notified, pre>>

\* InnerContext::parent of the node the top frame asks, behind the mutex of its
\* Context: None by default (Background, WithDeadline), the parent field of a
\* WithValue, self.parent.0.parent() of a WithCancel.
ParentOf(t) ==
    LET n == Top(t).node IN
    /\ Looking(t, "parent")
    /\ mutex[n] = 0
    /\ CASE Kind(n) = "WithValue" -> Yield(t, Some(Parent(n)))
         [] Kind(n) = "WithCancel" ->
              Enter(t, "return", [node |-> Parent(n), pc |-> "parent"])
         [] OTHER -> Yield(t, None)
    /\ UNCHANGED <<nodes, canceled, handle, sleepTask, flagLock, now, notified, pre>>

\* ctx.parent().and_then(|parent| parent.value()) once parent() has answered.
ValueOrElse(t) ==
    /\ Looking(t, "or_else")
    /\ IF ret[t] = None
       THEN Yield(t, None)
       ELSE Enter(t, "return", [node |-> ret[t][1], pc |-> "value"])
    /\ UNCHANGED <<nodes, canceled, handle, sleepTask, flagLock, now, notified, pre>>

\* The frame hands on what the frame above it returned.
LookupReturn(t) ==
    /\ Looking(t, "return")
    /\ Yield(t, ret[t])
    /\ UNCHANGED <<nodes, canceled, handle, sleepTask, flagLock, now, notified, pre>>

----
Next ==
    \/ \E p \in Ids : WithCancel(p) /\ UNCHANGED handleVars
    \/ \E p \in Ids, d \in Timeouts, e \in BOOLEAN : WithTimeout(p, d, e) /\ UNCHANGED handleVars
    \/ \E p \in Ids, v \in Vals : WithValue(p, v) /\ UNCHANGED handleVars
    \/ Tick /\ UNCHANGED handleVars
    \/ \E n \in Ids : CancelLock(n) /\ UNCHANGED handleVars
    \/ \E n \in Ids : CancelNotify(n) /\ UNCHANGED handleVars
    \/ \E t \in Solo, n \in Ids : StartPoll(t, n) /\ UNCHANGED handleVars
    \/ \E t \in Solo : PollLeaf(t) /\ UNCHANGED handleVars
    \/ \E t \in Solo : PollCancel(t) /\ UNCHANGED handleVars
    \/ \E t \in Solo : PollDeadline(t) /\ UNCHANGED handleVars
    \/ \E t \in Solo : PollFlag(t) /\ UNCHANGED handleVars
    \/ \E t \in Solo : PollMap(t) /\ UNCHANGED handleVars
    \/ \E t \in Solo : Park(t) /\ UNCHANGED handleVars
    \/ \E t \in Solo : Unpark(t) /\ UNCHANGED handleVars
    \/ \E t \in Solo, n \in Ids : CallDeadline(t, n) /\ UNCHANGED handleVars

Spec == Init /\ [][Next]_vars

----
\* The calls of one task through the handles and their clones, the lookups among
\* them, at the instant of the derivations.

Instants == -1..MaxTimeout

PollOn(t, h) == StartPoll(t, NodeOf(h)) /\ Through(t, h) /\ UNCHANGED clones
DeadlineOn(t, h) == CallDeadline(t, NodeOf(h)) /\ Through(t, h) /\ UNCHANGED clones
ValueOn(t, h, T) == StartValue(t, NodeOf(h), T) /\ Through(t, h) /\ UNCHANGED clones

NextHandles ==
    \/ \E p \in Ids : WithCancel(p) /\ UNCHANGED handleVars
    \/ \E p \in Ids, d \in Timeouts, e \in BOOLEAN : WithTimeout(p, d, e) /\ UNCHANGED handleVars
    \/ \E p \in Ids, v \in Vals : WithValue(p, v) /\ UNCHANGED handleVars
    \/ \E t \in Solo, p \in Ids, d \in Instants, e \in BOOLEAN :
          WithDeadline(t, p, d, e) /\ UNCHANGED handleVars
    \/ \E h \in Handles : Clone(h)
    \/ \E n \in Ids : CancelLock(n) /\ UNCHANGED handleVars
    \/ \E n \in Ids : CancelNotify(n) /\ UNCHANGED handleVars
    \/ \E t \in Solo, h \in Handles : PollOn(t, h)
    \/ \E t \in Solo : PollLeaf(t) /\ UNCHANGED handleVars
    \/ \E t \in Solo : PollCancel(t) /\ UNCHANGED handleVars
    \/ \E t \in Solo : PollDeadline(t) /\ UNCHANGED handleVars
    \/ \E t \in Solo : PollFlag(t) /\ UNCHANGED handleVars
    \/ \E t \in Solo : PollMap(t) /\ UNCHANGED handleVars
    \/ \E t \in Solo, h \in Handles : DeadlineOn(t, h)
    \/ \E t \in Solo, h \in Handles, T \in Types : ValueOn(t, h, T)
    \/ \E t \in Solo : Value(t) /\ UNCHANGED handleVars
    \/ \E t \in Solo : ParentOf(t) /\ UNCHANGED handleVars
    \/ \E t \in Solo : ValueOrElse(t) /\ UNCHANGED handleVars
    \/ \E t \in Solo : LookupReturn(t) /\ UNCHANGED handleVars

SpecHandles == Init /\ [][NextHandles]_vars

----
\* Two tasks on two threads, each making one call on a handle of the tree while
\* cancel functions run on further threads.

\* The task has not called yet.
Uncalled(t) == call[t].op = "none"

\* The steps of the call of task t that is under way.
TaskStep(t) ==
    \/ PollLeaf(t) \/ PollCancel(t) \/ PollDeadline(t) \/ PollFlag(t) \/ PollMap(t)
    \/ Value(t) \/ ParentOf(t) \/ ValueOrElse(t) \/ LookupReturn(t)

NextThreads ==
    \/ \E p \in Ids : WithCancel(p) /\ UNCHANGED handleVars
    \/ \E p \in Ids, d \in Timeouts, e \in BOOLEAN : WithTimeout(p, d, e) /\ UNCHANGED handleVars
    \/ \E p \in Ids, v \in Vals : WithValue(p, v) /\ UNCHANGED handleVars
    \/ \E n \in Ids : CancelLock(n) /\ UNCHANGED handleVars
    \/ \E n \in Ids : CancelNotify(n) /\ UNCHANGED handleVars
    \/ \E t \in Tasks, n \in Ids : Uncalled(t) /\ StartPoll(t, n) /\ UNCHANGED handleVars
    \/ \E t \in Tasks : PollLeaf(t) /\ UNCHANGED handleVars
    \/ \E t \in Tasks : PollCancel(t) /\ UNCHANGED handleVars
    \/ \E t \in Tasks : PollDeadline(t) /\ UNCHANGED handleVars
    \/ \E t \in Tasks : PollFlag(t) /\ UNCHANGED handleVars
    \/ \E t \in Tasks : PollMap(t) /\ UNCHANGED handleVars
    \/ \E t \in Tasks, n \in Ids : Uncalled(t) /\ CallDeadline(t, n) /\ UNCHANGED handleVars
    \/ \E t \in Tasks, n \in Ids, T \in Types :
          Uncalled(t) /\ StartValue(t, n, T) /\ UNCHANGED handleVars
    \/ \E t \in Tasks : Value(t) /\ UNCHANGED handleVars
    \/ \E t \in Tasks : ParentOf(t) /\ UNCHANGED handleVars
    \/ \E t \in Tasks : ValueOrElse(t) /\ UNCHANGED handleVars
    \/ \E t \in Tasks : LookupReturn(t) /\ UNCHANGED handleVars

SpecThreads == Init /\ [][NextThreads]_vars

----
\* Two tasks on two threads, each in wait() on a handle of a tree of contexts that
\* can be canceled, or on a clone of it, while cancel functions run on further
\* threads.

NextWaiters ==
    \/ \E p \in Ids : WithCancel(p) /\ UNCHANGED handleVars
    \/ \E p \in Ids : WithTimeout(p, MaxTimeout, FALSE) /\ UNCHANGED handleVars
    \/ \E h \in Handles : Clone(h)
    \/ \E n \in Ids : CancelLock(n) /\ UNCHANGED handleVars
    \/ \E n \in Ids : CancelNotify(n) /\ UNCHANGED handleVars
    \/ \E t \in Tasks, h \in Handles : Uncalled(t) /\ PollOn(t, h)
    \/ \E t \in Tasks : PollLeaf(t) /\ UNCHANGED handleVars
    \/ \E t \in Tasks : PollCancel(t) /\ UNCHANGED handleVars
    \/ \E t \in Tasks : PollDeadline(t) /\ UNCHANGED handleVars
    \/ \E t \in Tasks : PollFlag(t) /\ UNCHANGED handleVars
    \/ \E t \in Tasks : PollMap(t) /\ UNCHANGED handleVars
    \/ \E t \in Tasks : Park(t) /\ UNCHANGED handleVars
    \/ \E t \in Tasks : Unpark(t) /\ UNCHANGED handleVars

SpecWaiters == Init /\ [][NextWaiters]_vars

----
\* Properties.

\* Task t has a poll that returned, and nothing called since.
Polled(t) == pc[t] = "idle" /\ call[t].op = "poll"
Node(t) == call[t].node
Res(t) == call[t].res

\* m is reached from n through WithCancel nodes only, n being one of them.
CancelChain(n, m) ==
    \E i \in 1..Len(Path(n)) :
        /\ Path(n)[i] = m
        /\ \A j \in 1..i : Kind(Path(n)[j]) = "WithCancel"

\* C1: a poll of a with_cancel context that starts after its cancel function
\* has returned gives Err(Canceled), never NotReady.
C1_CanceledAfterCancel ==
    \A t \in Tasks :
        (Polled(t) /\ Kind(Node(t)) = "WithCancel" /\ Node(t) \in pre[t].trig)
            => Res(t) = "Canceled"

C1_Witness ==
    \E t \in Tasks :
        /\ Polled(t) /\ Kind(Node(t)) = "WithCancel" /\ Node(t) \in pre[t].trig
        /\ Kind(Parent(Node(t))) = "Background"
        /\ Res(t) = "Canceled"

\* C2: no missed wake-up: a task parked in its wait on a with_cancel context
\* whose cancel function has returned has a notification pending, so that its
\* park ends and its next poll gives Err(Canceled).
C2_NoMissedWakeup ==
    \A t \in Tasks :
        (/\ pc[t] = "parked"
         /\ Kind(Node(t)) = "WithCancel"
         /\ canceled[Node(t)]
         /\ ~flagLock[Node(t)])
            => notified[t]

\* C3: a poll that starts after the cancel function of its node or of an
\* ancestor has returned gives Err(Canceled) when no timer of the chain has
\* fired (and every timer of the chain took its timeout).
C3_CancelSeenByDescendants ==
    \A t \in Tasks :
        (/\ Polled(t)
         /\ pre[t].trig # {}
         /\ \A m \in PathSet(Node(t)) : ~Fired(m) /\ nodes[m].sleep # "Err")
            => Res(t) = "Canceled"

\* C4: a poll of a context derived by with_cancel calls from a with_cancel
\* context p, started after the cancel function of p has returned, gives
\* Err(Canceled).
C4_CancelPropagates ==
    \A t \in Tasks :
        (/\ Polled(t)
         /\ \E p \in pre[t].trig : p # Node(t) /\ CancelChain(Node(t), p))
            => Res(t) = "Canceled"

C4_Witness ==
    \E t \in Tasks :
        /\ Polled(t)
        /\ \E p \in pre[t].trig : p # Node(t) /\ CancelChain(Node(t), p)
        /\ ~canceled[Node(t)]
        /\ Res(t) = "Canceled"

\* C5: once a poll of a node has returned an error, every later poll of that
\* node returns the same error.
C5_Terminal ==
    \A t \in Tasks :
        Polled(t) => \A k \in pre[t].seen : Res(t) = k

\* C6: a poll of a with_timeout(background(), d) context that starts after its
\* cancel function has returned, the cancel function having returned before the
\* timer fired, gives Err(Canceled).
C6_CancelBeforeDeadline ==
    \A t \in Tasks :
        (/\ Polled(t)
         /\ Kind(Node(t)) = "WithDeadline"
         /\ Kind(Parent(Node(t))) = "Background"
         /\ nodes[Node(t)].sleep = "Sleep"
         /\ Node(t) \in pre[t].trig
         /\ Node(t) \notin pre[t].fired)
            => Res(t) = "Canceled"

\* A poll of a with_timeout(background(), d) context whose cancel function was
\* never called.
TimeoutPolled(t) ==
    /\ Polled(t)
    /\ Kind(Node(t)) = "WithDeadline"
    /\ Kind(Parent(Node(t))) = "Background"
    /\ ~canceled[Node(t)]

\* C7 as stated: a poll of a with_timeout(background(), d) context whose cancel
\* function is never called is NotReady when it returns before the timer has
\* fired and Err(DeadlineExceeded) when it starts after the timer has fired.
C7_Timeout ==
    \A t \in Tasks :
        TimeoutPolled(t) =>
            /\ ~Fired(Node(t)) => Res(t) = "NotReady"
            /\ Node(t) \in pre[t].fired => Res(t) = "DeadlineExceeded"

\* C7 amended: the same, for a timeout that the timer took.
C7_TimeoutTaken ==
    \A t \in Tasks :
        (TimeoutPolled(t) /\ nodes[Node(t)].sleep = "Sleep") =>
            /\ ~Fired(Node(t)) => Res(t) = "NotReady"
            /\ Node(t) \in pre[t].fired => Res(t) = "DeadlineExceeded"

C7_Witness ==
    \E t \in Tasks :
        /\ TimeoutPolled(t) /\ nodes[Node(t)].sleep = "Sleep"
        /\ nodes[Node(t)].when > 0
        /\ Node(t) \in pre[t].fired
        /\ Res(t) = "DeadlineExceeded"

\* A poll of ctx = with_timeout(parent, long), parent = with_timeout(background(),
\* short), short < long, started after the timer of parent has fired and
\* returned before the timer of ctx has.
NestedPolled(t) ==
    LET c == Node(t) IN
    /\ Polled(t)
    /\ Kind(c) = "WithDeadline"
    /\ Kind(Parent(c)) = "WithDeadline"
    /\ Kind(Parent(Parent(c))) = "Background"
    /\ nodes[Parent(c)].when < nodes[c].when
    /\ Parent(c) \in pre[t].fired
    /\ ~Fired(c)

\* C8 as stated: such a poll gives Err(DeadlineExceeded).
C8_NestedDeadline ==
    \A t \in Tasks : NestedPolled(t) => Res(t) = "DeadlineExceeded"

\* C8 amended: such a poll gives Err(DeadlineExceeded) when the timer took the
\* timeout of ctx and the cancel function of ctx has not been called.
C8_NestedDeadlineTaken ==
    \A t \in Tasks :
        (/\ NestedPolled(t)
         /\ nodes[Node(t)].sleep = "Sleep"
         /\ ~canceled[Node(t)])
            => Res(t) = "DeadlineExceeded"

C8_Witness ==
    \E t \in Tasks :
        /\ NestedPolled(t)
        /\ nodes[Node(t)].sleep = "Sleep"
        /\ ~canceled[Node(t)]
        /\ Res(t) = "DeadlineExceeded"

\* C9: a poll of a with_value context passes the parent's completion through:
\* started after an ancestor was canceled or its timer fired, it is not NotReady.
C9_ValuePassThrough ==
    \A t \in Tasks :
        (/\ Polled(t)
         /\ Kind(Node(t)) = "WithValue"
         /\ pre[t].trig \cup pre[t].fired # {})
            => Res(t) # "NotReady"

\* The deadline of the nearest node with a deadline on the way to the background.
RECURSIVE EffectiveDeadline(_)
EffectiveDeadline(n) ==
    IF n = 0 THEN None
    ELSE IF Kind(n) = "WithDeadline" THEN Some(nodes[n].when)
    ELSE EffectiveDeadline(Parent(n))

\* C10: deadline() gives the deadline of the node or else of its nearest
\* ancestor that has one, and none only when no node up to the background has.
C10_DeadlineWalksUp ==
    \A t \in Tasks :
        (pc[t] = "idle" /\ call[t].op = "deadline")
            => call[t].val = EffectiveDeadline(Node(t))

\* Task t has a value::<T>() call that returned, and nothing called since.
Looked(t) == pc[t] = "idle" /\ call[t].op = "value"

\* The value of type T stored nearest to n on the way to the background.
RECURSIVE NearestValue(_, _)
NearestValue(n, T) ==
    IF n = 0 THEN None
    ELSE IF Kind(n) = "WithValue" /\ nodes[n].val.type = T THEN Some(nodes[n].val.v)
    ELSE NearestValue(Parent(n), T)

\* C11: value::<T>() gives the value of the nearest node, from the node of the
\* handle up to the background, that stores a T: nearer values of type T shadow
\* further ones, values of other types are skipped, none when no node stores a T.
C11_NearestWins ==
    \A t \in Tasks :
        Looked(t) => call[t].val = NearestValue(Node(t), call[t].type)

\* C12: when a value node above the node of the handle stores a T, with cancel,
\* deadline and value nodes of other types between them, value::<T>() gives it.
C12_ValueThroughEveryKind ==
    \A t \in Tasks :
        (/\ Looked(t)
         /\ ~(Kind(Node(t)) = "WithValue" /\ nodes[Node(t)].val.type = call[t].type)
         /\ NearestValue(Node(t), call[t].type) # None)
            => call[t].val = NearestValue(Node(t), call[t].type)

\* A step of a call of the cancel function of n: the call takes or drops the
\* mutex of the flag.
CancelStep(n) == n \in Ids /\ flagLock'[n] # flagLock[n]

\* C13: a call of the cancel function of a node whose flag is set already leaves
\* the flag set and changes nothing else that a poll or a lookup reads (it only
\* repeats the notification of the waiter), and it is never refused: the call
\* can start when no other call holds the flag, and a call that started can end.
C13_TriggerIdempotent ==
    /\ [][\A n \in Ids : (canceled[n] /\ CancelStep(n)) =>
              /\ canceled' = canceled
              /\ UNCHANGED <<nodes, handle, sleepTask, mutex, now, pc, call, stack, ret, pre>>
              /\ \A t \in Tasks : notified[t] => notified'[t]]_vars
    /\ [](\A n \in Ids : HasCancel(n) => ENABLED (CancelLock(n) \/ CancelNotify(n)))

\* A poll has returned Canceled from a with_cancel node, and a further call of
\* its cancel function has set the flag again.
C13_Witness ==
    \E t \in Tasks :
        /\ Polled(t) /\ Kind(Node(t)) = "WithCancel" /\ Res(t) = "Canceled"
        /\ Node(t) \in pre[t].trig
        /\ flagLock[Node(t)] /\ canceled[Node(t)]

\* Task t has a call on the background that returned.
RootCalled(t) ==
    /\ pc[t] = "idle"
    /\ call[t].op \in {"poll", "deadline", "value"}
    /\ Kind(Node(t)) = "Background"

\* C14: on the background, every poll is NotReady and deadline() and value()
\* are None, whatever was derived from it, canceled or expired below it.
C14_RootNeverResolves ==
    \A t \in Tasks :
        RootCalled(t) =>
            /\ call[t].op = "poll" => Res(t) = "NotReady"
            /\ call[t].op \in {"deadline", "value"} => call[t].val = None

\* A poll of the background that started after a context derived from it was
\* canceled and the timer of another had fired.
C14_Witness ==
    \E t \in Tasks :
        /\ RootCalled(t) /\ call[t].op = "poll" /\ Res(t) = "NotReady"
        /\ \E n \in Ids : canceled[n] /\ ~flagLock[n]
        /\ \E n \in Ids : Fired(n)

\* Task t has a call through a clone that returned, and nothing called since.
CloneCalled(t) ==
    /\ pc[t] = "idle"
    /\ call[t].op \in {"poll", "deadline", "value"}
    /\ via[t].clone > 0

\* The node of the handle that the clone of the last call of t was made of.
Original(t) == NodeOf(clones[via[t].clone].of)

\* C15: a call through a clone acts on the node of the handle cloned: deadline()
\* gives the deadline of that node, value() the value it stores, and a poll that
\* starts after the cancel function of that node has returned, or when its timer
\* has fired, gives the error a poll through the handle cloned gives.
C15_CloneSharesNode ==
    \A t \in Tasks :
        CloneCalled(t) =>
            LET o == Original(t) IN
            /\ Node(t) = o
            /\ call[t].op = "deadline" => call[t].val = Deadline(o)
            /\ (/\ call[t].op = "value"
                /\ Kind(o) = "WithValue"
                /\ nodes[o].val.type = call[t].type) => call[t].val = Some(nodes[o].val.v)
            /\ (call[t].op = "poll" /\ Fired(o)) => Res(t) = "DeadlineExceeded"
            /\ (/\ call[t].op = "poll"
                /\ Kind(o) = "WithCancel"
                /\ o \in via[t].trig) => Res(t) = "Canceled"

\* A poll through a clone of a with_cancel context, started after the cancel
\* function returned, gave Canceled.
C15_Witness ==
    \E t \in Tasks :
        /\ CloneCalled(t) /\ call[t].op = "poll"
        /\ Kind(Original(t)) = "WithCancel"
        /\ Original(t) \in via[t].trig
        /\ Res(t) = "Canceled"

\* C16: with_deadline with an instant that has passed does not panic, and the
\* first poll (every poll) of the context it returns, whose timer is set to no
\* time at all, gives DeadlineExceeded.
C16_PastDeadline ==
    /\ \A t \in Tasks : pc[t] # "panicked"
    /\ \A t \in Tasks :
          (/\ Polled(t)
           /\ Kind(Node(t)) = "WithDeadline"
           /\ nodes[Node(t)].sleep = "Sleep"
           /\ nodes[Node(t)].when = 0) => Res(t) = "DeadlineExceeded"

\* A poll of a with_cancel context, started after its cancel function returned
\* and when its parent had resolved: the parent's timer had fired or had refused
\* its timeout.
CanceledOverResolved(t) ==
    /\ Polled(t)
    /\ Kind(Node(t)) = "WithCancel"
    /\ Node(t) \in pre[t].trig
    /\ Kind(Parent(Node(t))) = "WithDeadline"
    /\ Parent(Node(t)) \in pre[t].fired \/ nodes[Parent(Node(t))].sleep = "Err"

\* C17: a canceled with_cancel context reports Canceled and never the result of
\* its parent, also when the parent has resolved with DeadlineExceeded or
\* DeadlineTooLong.
C17_FlagBeforeParent ==
    \A t \in Tasks :
        CanceledOverResolved(t) =>
            Res(t) = "Canceled" /\ Res(t) \notin {"DeadlineExceeded", "DeadlineTooLong"}

C17_Witness ==
    \E t \in Tasks :
        /\ CanceledOverResolved(t)
        /\ Parent(Node(t)) \in pre[t].fired
        /\ Res(t) = "Canceled"

\* C18: a poll of a deadline node gives DeadlineExceeded when its timer had fired
\* when it started, also when its cancel function was called or an ancestor has
\* resolved; DeadlineTooLong when its timer refused the timeout; and, returning
\* with the timer pending, the result of its inner cancel node: Canceled when
\* its cancel function returned before the poll started, never DeadlineTooLong
\* of its own.
C18_DeadlinePollOrder ==
    \A t \in Tasks :
        (Polled(t) /\ Kind(Node(t)) = "WithDeadline") =>
            LET n == Node(t) IN
            /\ n \in pre[t].fired => Res(t) = "DeadlineExceeded"
            /\ nodes[n].sleep = "Err" => Res(t) = "DeadlineTooLong"
            /\ (nodes[n].sleep = "Sleep" /\ ~Fired(n)) =>
                  /\ n \in pre[t].trig => Res(t) = "Canceled"
                  /\ (n \notin pre[t].trig /\ ~canceled[n] /\ Kind(Parent(n)) = "Background")
                        => Res(t) = "NotReady"

\* The timer had fired and the cancel function had returned when the poll
\* started, and the poll gave DeadlineExceeded.
C18_Witness ==
    \E t \in Tasks :
        /\ Polled(t) /\ Kind(Node(t)) = "WithDeadline"
        /\ Node(t) \in pre[t].fired
        /\ Node(t) \in pre[t].trig
        /\ nodes[Node(t)].when > 0
        /\ Res(t) = "DeadlineExceeded"

\* C19: while the poll of a node runs the poll of its parent, the thread holds
\* no mutex of the node: not the mutex of its Context (the mutexes of its flag
\* and of its waiter slot are taken and dropped within one step of the poll of
\* the node itself, PollFlag and PollMap, and never held here).
C19_NoLockAcrossParentPoll ==
    \A t \in Tasks :
        pc[t] = "polling" =>
            \A i \in 1..(Len(stack[t]) - 1) : mutex[stack[t][i].node] # t

\* The call of task t stands before a lock() of the mutex of the Context of a node.
Locking(t) ==
    /\ pc[t] \in {"polling", "looking"}
    /\ Top(t).pc \in {"lock", "value", "parent"}

\* Task t waits for a mutex that task u holds.
WaitsFor(t, u) == Locking(t) /\ mutex[Top(t).node] = u

\* The mutexes of Contexts that task t holds.
Held(t) == {n \in Ids : mutex[n] = t}

\* No set of tasks waits in a cycle; a task asks only for the mutex of a proper
\* ancestor of the nodes whose mutexes it holds; a cancel function that holds
\* the mutex of its flag can go on to the waiter slot.
NoWaitCycle ==
    /\ \A S \in SUBSET Tasks :
          S # {} => \E t \in S : \A u \in S : ~WaitsFor(t, u)
    /\ \A t \in Tasks :
          Locking(t) => \A n \in Held(t) : Top(t).node \in PathSet(n) \ {n}
    /\ \A n \in Ids : flagLock[n] => ENABLED CancelNotify(n)

\* A call under way is not stuck: its task can take a step, or it waits for the
\* mutex of a Context in the hands of the other task, or for the mutex of a flag
\* in the hands of a cancel function.
CanGoOn ==
    \A t \in Tasks :
        pc[t] \in {"polling", "looking"} =>
            \/ ENABLED TaskStep(t)
            \/ \E u \in Tasks \ {t} : WaitsFor(t, u)
            \/ Top(t).pc = "flag" /\ flagLock[Top(t).node]

\* The steps a frame has at most before it, by the length d of the path from its
\* node to the background.
Depth(n) == Len(Path(n))
Weight(f) ==
    LET d == Depth(f.node) IN
    CASE f.pc = "lock" -> 3 * d
      [] f.pc = "flag" -> 3 * d - 1
      [] f.pc = "value" -> d * (d + 2)
      [] f.pc = "or_else" -> d * d + 1
      [] f.pc = "parent" -> 2 * d
      [] OTHER -> 1

RECURSIVE WorkOf(_)
WorkOf(frames) == IF frames = <<>> THEN 0 ELSE Weight(Head(frames)) + WorkOf(Tail(frames))

\* The steps the call of task t has at most before it.
Work(t) == WorkOf(stack[t])

\* C20: deadlock freedom.  With two threads calling poll, value and deadline on
\* handles of any tree while cancel functions run, no tasks ever wait for each
\* other's mutexes in a cycle (the mutexes of Contexts are taken child before
\* parent, and the cancel function is never kept from the waiter slot), and
\* every call returns: a call under way can go on or waits for a thread that
\* can, and each of its steps leaves it fewer steps to take.
C20_DeadlockFree ==
    /\ [](NoWaitCycle /\ CanGoOn)
    /\ [][\A t \in Tasks : TaskStep(t) => Work(t)' < Work(t)]_vars

\* A task that holds the mutex of one Context waits for the mutex of an ancestor,
\* which the other task holds.
C20_Witness ==
    \E t, u \in Tasks :
        /\ t # u
        /\ WaitsFor(t, u)
        /\ Held(t) # {}

\* Task t is parked in its wait on node n, with no notification pending.
ParkedOn(t, n) == pc[t] = "parked" /\ call[t].node = n /\ ~notified[t]

\* C21: several waiters on one cancel node: when two tasks have polled the same
\* node, through its handle or a clone, and both are parked, the cancel function
\* of the node notifies both of them.
C21_AllWaitersNotified ==
    [][\A n \in Ids :
          (CancelNotify(n) /\ \A t \in Tasks : ParkedOn(t, n))
              => \A t \in Tasks : notified'[t]]_vars

====
